---- MODULE Spec2Model ----
(***************************************************************************)
(* Export job ledger of the video editing backend.                         *)
(*                                                                         *)
(*   routes.py    create_export_job, get_export_job, list_export_job_events *)
(*   exporter.py  _insert_event, _update_job, run_export_job_stub           *)
(*                                                                         *)
(* Tables are sets / functions of rows.  Every `async with engine.begin()` *)
(* block and every session commit is one atomic step: between two of them  *)
(* any other request or background task may run and any reader may look.   *)
(* Decimal progress values are counted in hundredths (10.00 is 1000).      *)
(* Optional values are sequences of length 0 (None) or 1.                  *)
(***************************************************************************)
EXTENDS Integers, Sequences, FiniteSets, TLC

\* ---- bounds ----
\* Job ids create_export_job can hand out.  Jobs share nothing but the clock
\* and the events' id sequence.
MaxJobs == 1
\* Last value of the clock.
MaxClock == 2
\* Calls of run_export_job_stub, SpecRedispatch's second calls included.
MaxRuns == 2

JobIds == 1..MaxJobs

\* Bounds of the projects/timeline tables: how many ids each table generates.
MaxProjects == 1
MaxMedia == 1
MaxTracks == 2
MaxClips == 2
MaxTrims == 1
MaxTransitions == 1

ProjectIds == 1..MaxProjects
MediaIds == 1..MaxMedia
TrackIds == 1..MaxTracks
ClipIds == 1..MaxClips
TrimIds == 1..MaxTrims
TransitionIds == 1..MaxTransitions

None == << >>
Some(x) == << x >>

\* Mutants of Schedule: a step left out; two steps swapped.
Schedule_short == << 1000, 2500, 5000, 10000 >>
Schedule_swapped == << 1000, 5000, 2500, 7500, 10000 >>

\* Decimal("0.00") and Decimal("100.00"), in hundredths.
ZeroProgress == 0
FullProgress == 10000

\* The pct tuple of the progress loop.
Schedule == << 1000, 2500, 5000, 7500, FullProgress >>

TerminalStatus == {"succeeded", "failed", "canceled"}
TerminalEvent == {"completed", "failed", "canceled"}

VARIABLES
    export_jobs,        \* table export_jobs: job id -> row
    export_job_events,  \* table export_job_events: set of rows
    event_id_seq,       \* last value of the events' id sequence
    clock,              \* the clock (python's now() and the database's)
    runs,               \* the calls of run_export_job_stub, in dispatch order
    requests,           \* create_export_job requests between commit and return
    projects,           \* table projects: project id -> row
    media_assets,       \* table media_assets
    timeline_tracks,    \* table timeline_tracks
    timeline_clips,     \* table timeline_clips
    clip_trims,         \* table clip_trims
    transitions,        \* table transitions
    issued,             \* per table, the generated ids in the order they were generated
    response,           \* what the last request to a projects/timeline route returned
    reader              \* a get_export_job_with_events request in progress

outside_ledger == << projects, media_assets, timeline_tracks, timeline_clips,
                     clip_trims, transitions, response, reader >>

vars == << export_jobs, export_job_events, event_id_seq, clock, runs, requests,
           issued, outside_ledger >>

Tables == { "projects", "media_assets", "timeline_tracks", "timeline_clips",
            "clip_trims", "transitions", "export_jobs" }

\* Ids a table has generated so far: a generated uuid is never generated again.
Issued(table) == { issued[table][i] : i \in 1..Len(issued[table]) }

\* ---- export_job_events --------------------------------------------------

\* Mutant of EventBefore: ORDER BY created_at DESC, id DESC
EventBefore_desc(a, b) ==
    \/ a.created_at > b.created_at
    \/ a.created_at = b.created_at /\ a.id > b.id

\* ORDER BY created_at ASC, id ASC
EventBefore(a, b) ==
    \/ a.created_at < b.created_at
    \/ a.created_at = b.created_at /\ a.id < b.id

RECURSIVE SortEvents(_)
SortEvents(S) ==
    IF S = {} THEN << >>
    ELSE LET first == CHOOSE e \in S : \A o \in S \ {e} : EventBefore(e, o)
         IN  << first >> \o SortEvents(S \ {first})

\* SELECT ... FROM export_job_events WHERE export_job_id = :id ORDER BY ...
list_export_job_events(tbl, id) ==
    SortEvents({e \in tbl : e.export_job_id = id})

\* INSERT INTO export_job_events (...): id from the sequence, created_at now()
InsertEventRow(tbl, seq, export_job_id, event_type, progress, at) ==
    tbl \cup {[ id |-> seq + 1,
                export_job_id |-> export_job_id,
                event_type |-> event_type,
                progress |-> progress,
                created_at |-> at ]}

\* ---- export_jobs --------------------------------------------------------

\* _update_job: only the arguments that are not None are written, and an id
\* that matches no row updates nothing.
UpdateJobRow(tbl, id, status, progress, output_uri, error_message, started_at, finished_at) ==
    IF id \notin DOMAIN tbl
       \/ ( status = None /\ progress = None /\ output_uri = None
            /\ error_message = None /\ started_at = None /\ finished_at = None )
    THEN tbl
    ELSE [tbl EXCEPT ![id] =
            [ project_id    |-> @.project_id,
              status        |-> IF status # None THEN status[1] ELSE @.status,
              progress      |-> IF progress # None THEN progress[1] ELSE @.progress,
              output_uri    |-> IF output_uri # None THEN output_uri ELSE @.output_uri,
              error_message |-> IF error_message # None THEN error_message ELSE @.error_message,
              started_at    |-> IF started_at # None THEN started_at ELSE @.started_at,
              finished_at   |-> IF finished_at # None THEN finished_at ELSE @.finished_at ]]

\* f"exports/{export_job_id}.mp4"
OutputUri(id) == << "exports", id, "mp4" >>

\* ProjectCreate's defaults, with the columns the table fills in.
DefaultProject ==
    [ name |-> "Demo", description |-> None, width |-> 1920, height |-> 1080,
      fps |-> 30, duration_ms |-> 0, created_at |-> 0 ]

NoResponse == [ op |-> "none", id |-> 0, payload |-> None, status |-> 0, body |-> None ]
NoReader == [ pc |-> "idle", id |-> 0, job |-> None, seen |-> << >>, events |-> << >> ]

EmptyLedger ==
    /\ export_jobs = << >>
    /\ export_job_events = {}
    /\ event_id_seq = 0
    /\ clock = 0
    /\ runs = << >>
    /\ requests = {}
    /\ response = NoResponse
    /\ reader = NoReader

\* The export ledger of one stored project, before its first export job.
Init ==
    /\ EmptyLedger
    /\ projects = (1 :> DefaultProject)
    /\ media_assets = << >>
    /\ timeline_tracks = << >>
    /\ timeline_clips = << >>
    /\ clip_trims = << >>
    /\ transitions = << >>
    /\ issued = [t \in Tables |-> IF t = "projects" THEN << 1 >> ELSE << >>]

\* The clock never goes backwards.
Tick ==
    /\ clock < MaxClock
    /\ clock' = clock + 1
    /\ UNCHANGED << export_jobs, export_job_events, event_id_seq, runs, requests, issued, outside_ledger >>

\* A fresh call of run_export_job_stub, not yet started.
NewRun(id) == [ job |-> id, pc |-> "dispatched", pct |-> 1, now |-> None ]

\* Mutant of CreateExportJob: the created event is not written.
CreateExportJob_noevent(id) ==
    /\ id \notin Issued("export_jobs")
    /\ \E project_id \in DOMAIN projects :
          export_jobs' = export_jobs @@ (id :>
            [ project_id |-> project_id, status |-> "queued", progress |-> ZeroProgress,
              output_uri |-> None, error_message |-> None,
              started_at |-> None, finished_at |-> None ])
    /\ issued' = [issued EXCEPT !["export_jobs"] = Append(@, id)]
    /\ requests' = requests \cup {id}
    /\ UNCHANGED << export_job_events, event_id_seq, clock, runs, outside_ledger >>

\* create_export_job up to session.commit(): the job row (with its generated
\* id) and its created event are inserted and committed together.  A request
\* whose insert raises (no such project) commits nothing and changes no state.
CreateExportJob(id) ==
    /\ id \notin Issued("export_jobs")
    /\ \E project_id \in DOMAIN projects :
          export_jobs' = export_jobs @@ (id :>
            [ project_id |-> project_id, status |-> "queued", progress |-> ZeroProgress,
              output_uri |-> None, error_message |-> None,
              started_at |-> None, finished_at |-> None ])
    /\ issued' = [issued EXCEPT !["export_jobs"] = Append(@, id)]
    /\ export_job_events' =
            InsertEventRow(export_job_events, event_id_seq, id, "created", ZeroProgress, clock)
    /\ event_id_seq' = event_id_seq + 1
    /\ requests' = requests \cup {id}
    /\ UNCHANGED << clock, runs, outside_ledger >>

\* Mutant of DispatchExportJob: the background task is added twice.
DispatchExportJob_twice(id) ==
    /\ id \in requests
    /\ runs' = Append(Append(runs, NewRun(id)), NewRun(id))
    /\ requests' = requests \ {id}
    /\ UNCHANGED << export_jobs, export_job_events, event_id_seq, clock, issued, outside_ledger >>

\* Mutant of DispatchExportJob: the task is started while the request is still
\* producing its response.
DispatchExportJob_early(id) ==
    /\ id \in requests
    /\ \A r \in DOMAIN runs : runs[r].job # id
    /\ runs' = Append(runs, NewRun(id))
    /\ UNCHANGED << export_jobs, export_job_events, event_id_seq, clock, requests, issued, outside_ledger >>

\* create_export_job after the commit:
\* background_tasks.add_task(run_export_job_stub, row["id"]); return
DispatchExportJob(id) ==
    /\ id \in requests
    /\ runs' = Append(runs, NewRun(id))
    /\ requests' = requests \ {id}
    /\ UNCHANGED << export_jobs, export_job_events, event_id_seq, clock, issued, outside_ledger >>

\* ---- run_export_job_stub ---------------------------------------------------

Run(r) == runs[r]
Job(r) == runs[r].job
At(r, label) == r \in DOMAIN runs /\ runs[r].pc = label

WritePcs == { "set_queued", "log_queued", "set_running", "log_started",
              "set_progress", "log_progress", "set_succeeded", "log_completed" }

\* await _insert_event(engine, export_job_id, event_type, message, progress)
InsertEvent(r, event_type, progress, next_pc, next_pct) ==
    /\ export_job_events' =
            InsertEventRow(export_job_events, event_id_seq, Job(r), event_type, progress, clock)
    /\ event_id_seq' = event_id_seq + 1
    /\ runs' = [runs EXCEPT ![r].pc = next_pc, ![r].pct = next_pct]
    /\ UNCHANGED << export_jobs, clock, requests, issued, outside_ledger >>

\* await _update_job(engine, export_job_id, ...)
UpdateJob(r, status, progress, output_uri, started_at, finished_at, next_pc) ==
    /\ export_jobs' = UpdateJobRow(export_jobs, Job(r), status, progress,
                                   output_uri, None, started_at, finished_at)
    /\ runs' = [runs EXCEPT ![r].pc = next_pc]
    /\ UNCHANGED << export_job_events, event_id_seq, clock, requests, issued, outside_ledger >>

\* The background task starts: engine = get_engine(); now = datetime.now(utc)
BeginRun(r) ==
    /\ At(r, "dispatched")
    /\ runs' = [runs EXCEPT ![r].pc = "set_queued", ![r].now = Some(clock)]
    /\ UNCHANGED << export_jobs, export_job_events, event_id_seq, clock, requests, issued, outside_ledger >>

\* _update_job(status="queued", progress=Decimal("0.00"))
SetQueued(r) ==
    /\ At(r, "set_queued")
    /\ UpdateJob(r, Some("queued"), Some(ZeroProgress), None, None, None, "log_queued")

\* Mutant of LogQueued: the run goes back to its first write instead of
\* appending the event.
LogQueued_retry(r) ==
    /\ At(r, "log_queued")
    /\ runs' = [runs EXCEPT ![r].pc = "set_queued"]
    /\ UNCHANGED << export_jobs, export_job_events, event_id_seq, clock, requests, issued, outside_ledger >>

\* _insert_event("queued", "Export queued.", Decimal("0.00"))
LogQueued(r) ==
    /\ At(r, "log_queued")
    /\ InsertEvent(r, "queued", ZeroProgress, "set_running", 1)

\* Mutant of SetRunning: the row is left queued when the run starts.
SetRunning_queued(r) ==
    /\ At(r, "set_running")
    /\ UpdateJob(r, None, Some(ZeroProgress), None, Run(r).now, None, "log_started")

\* Mutant of SetRunning: the output location is written when the run starts.
SetRunning_uri(r) ==
    /\ At(r, "set_running")
    /\ UpdateJob(r, Some("running"), Some(ZeroProgress), Some(OutputUri(Job(r))),
                 Run(r).now, None, "log_started")

\* _update_job(status="running", started_at=now, progress=Decimal("0.00"))
SetRunning(r) ==
    /\ At(r, "set_running")
    /\ UpdateJob(r, Some("running"), Some(ZeroProgress), None, Run(r).now, None, "log_started")

\* _insert_event("started", "Export started.", Decimal("0.00"))
LogStarted(r) ==
    /\ At(r, "log_started")
    /\ InsertEvent(r, "started", ZeroProgress, "set_progress", 1)

\* Mutant of SetProgress: the row is written one value of the schedule early.
SetProgress_ahead(r) ==
    /\ At(r, "set_progress")
    /\ UpdateJob(r, None,
                 Some(Schedule[IF Run(r).pct < Len(Schedule) THEN Run(r).pct + 1 ELSE Run(r).pct]),
                 None, None, None, "log_progress")

\* for pct in (...): _update_job(progress=pct)
SetProgress(r) ==
    /\ At(r, "set_progress")
    /\ UpdateJob(r, None, Some(Schedule[Run(r).pct]), None, None, None, "log_progress")

\* for pct in (...): _insert_event("progress", f"Progress {pct}%", pct); the
\* loop goes on with the next pct or ends.
LogProgress(r) ==
    /\ At(r, "log_progress")
    /\ IF Run(r).pct < Len(Schedule)
       THEN InsertEvent(r, "progress", Schedule[Run(r).pct], "set_progress", Run(r).pct + 1)
       ELSE InsertEvent(r, "progress", Schedule[Run(r).pct], "set_succeeded", Run(r).pct)

\* Mutant of SetSucceeded: finished_at is not passed.
SetSucceeded_nofinish(r) ==
    /\ At(r, "set_succeeded")
    /\ UpdateJob(r, Some("succeeded"), Some(FullProgress), Some(OutputUri(Job(r))),
                 None, None, "log_completed")

\* finished = datetime.now(utc); _update_job(status="succeeded",
\* progress=Decimal("100.00"), output_uri=output_uri, finished_at=finished)
SetSucceeded(r) ==
    /\ At(r, "set_succeeded")
    /\ UpdateJob(r, Some("succeeded"), Some(FullProgress), Some(OutputUri(Job(r))),
                 None, Some(clock), "log_completed")

\* Mutant of LogCompleted: the event's insert also resets the row's progress.
LogCompleted_touch(r) ==
    /\ At(r, "log_completed")
    /\ export_job_events' =
            InsertEventRow(export_job_events, event_id_seq, Job(r), "completed", FullProgress, clock)
    /\ event_id_seq' = event_id_seq + 1
    /\ export_jobs' = UpdateJobRow(export_jobs, Job(r), None, Some(ZeroProgress),
                                   None, None, None, None)
    /\ runs' = [runs EXCEPT ![r].pc = "done"]
    /\ UNCHANGED << clock, requests, issued, outside_ledger >>

\* _insert_event("completed", "Export completed.", Decimal("100.00"))
LogCompleted(r) ==
    /\ At(r, "log_completed")
    /\ InsertEvent(r, "completed", FullProgress, "done", Run(r).pct)

\* A storage write raises (the transaction rolls back): nothing in
\* run_export_job_stub catches it, so the background task ends there.
StorageError(r) ==
    /\ r \in DOMAIN runs
    /\ runs[r].pc \in WritePcs
    /\ runs' = [runs EXCEPT ![r].pc = "crashed"]
    /\ UNCHANGED << export_jobs, export_job_events, event_id_seq, clock, requests, issued, outside_ledger >>

Next ==
    \/ Tick
    \/ \E id \in JobIds : CreateExportJob(id)
    \/ \E id \in JobIds : DispatchExportJob(id)
    \/ \E r \in DOMAIN runs : BeginRun(r)
    \/ \E r \in DOMAIN runs : SetQueued(r)
    \/ \E r \in DOMAIN runs : LogQueued(r)
    \/ \E r \in DOMAIN runs : SetRunning(r)
    \/ \E r \in DOMAIN runs : LogStarted(r)
    \/ \E r \in DOMAIN runs : SetProgress(r)
    \/ \E r \in DOMAIN runs : LogProgress(r)
    \/ \E r \in DOMAIN runs : SetSucceeded(r)
    \/ \E r \in DOMAIN runs : LogCompleted(r)
    \/ \E r \in DOMAIN runs : StorageError(r)

Spec == Init /\ [][Next]_vars

\* ---- runs in which no storage write fails -----------------------------------

\* The next statement of run r.
RunStep(r) ==
    \/ BeginRun(r)
    \/ SetQueued(r)
    \/ LogQueued(r)
    \/ SetRunning(r)
    \/ LogStarted(r)
    \/ SetProgress(r)
    \/ LogProgress(r)
    \/ SetSucceeded(r)
    \/ LogCompleted(r)

NextNoFailure ==
    \/ Tick
    \/ \E id \in JobIds : CreateExportJob(id)
    \/ \E id \in JobIds : DispatchExportJob(id)
    \/ \E r \in DOMAIN runs : BeginRun(r)
    \/ \E r \in DOMAIN runs : SetQueued(r)
    \/ \E r \in DOMAIN runs : LogQueued(r)
    \/ \E r \in DOMAIN runs : SetRunning(r)
    \/ \E r \in DOMAIN runs : LogStarted(r)
    \/ \E r \in DOMAIN runs : SetProgress(r)
    \/ \E r \in DOMAIN runs : LogProgress(r)
    \/ \E r \in DOMAIN runs : SetSucceeded(r)
    \/ \E r \in DOMAIN runs : LogCompleted(r)

\* The request that committed a job returns and hands over its task, and the
\* event loop goes on running every task it was handed: each awaited write
\* completes.
SpecNoFailure ==
    /\ Init
    /\ [][NextNoFailure]_vars
    /\ \A id \in JobIds : WF_vars(DispatchExportJob(id))
    /\ \A r \in JobIds : WF_vars(RunStep(r))

\* ---- a second call of run_export_job_stub ----------------------------------

Active(r) == runs[r].pc \notin {"done", "crashed"}

\* run_export_job_stub is a public function.  A caller outside
\* create_export_job (a retry) calls it again for a job whose earlier run has
\* ended and whose row is no longer queued.
Redispatch(id) ==
    /\ id \in DOMAIN export_jobs
    /\ export_jobs[id].status # "queued"
    /\ \A r \in DOMAIN runs : runs[r].job = id => ~Active(r)
    /\ Len(runs) < MaxRuns
    /\ runs' = Append(runs, NewRun(id))
    /\ UNCHANGED << export_jobs, export_job_events, event_id_seq, clock, requests, issued, outside_ledger >>

NextRedispatch ==
    \/ Next
    \/ \E id \in JobIds : Redispatch(id)

SpecRedispatch == Init /\ [][NextRedispatch]_vars

\* ---- get_export_job_with_events ---------------------------------------------

Events(id) == list_export_job_events(export_job_events, id)

\* job = await get_export_job(job_id, session): the first SELECT.  No isolation
\* level is configured, so each statement reads what is committed when it
\* runs.  reader.seen records the job's events at this moment.
GetExportJob(id) ==
    /\ reader.pc = "idle"
    /\ reader' = IF id \in DOMAIN export_jobs
                 THEN [ pc |-> "job_read", id |-> id, job |-> Some(export_jobs[id]),
                        seen |-> Events(id), events |-> << >> ]
                 ELSE [ NoReader EXCEPT !.pc = "not_found", !.id = id ]
    /\ UNCHANGED << export_jobs, export_job_events, event_id_seq, clock, runs, requests,
                    issued, projects, media_assets, timeline_tracks, timeline_clips,
                    clip_trims, transitions, response >>

\* Mutant of ListExportJobEvents: the events are those of the first SELECT.
ListExportJobEvents_snapshot ==
    /\ reader.pc = "job_read"
    /\ reader' = [reader EXCEPT !.pc = "returned", !.events = reader.seen]
    /\ UNCHANGED << export_jobs, export_job_events, event_id_seq, clock, runs, requests,
                    issued, projects, media_assets, timeline_tracks, timeline_clips,
                    clip_trims, transitions, response >>

\* events = await list_export_job_events(job_id, session): the second SELECT.
ListExportJobEvents ==
    /\ reader.pc = "job_read"
    /\ reader' = [reader EXCEPT !.pc = "returned", !.events = Events(reader.id)]
    /\ UNCHANGED << export_jobs, export_job_events, event_id_seq, clock, runs, requests,
                    issued, projects, media_assets, timeline_tracks, timeline_clips,
                    clip_trims, transitions, response >>

\* return ExportJobWithEvents(job=job, events=events), or the 404 of
\* get_export_job: the request is over.
ReaderReturn ==
    /\ reader.pc \in {"returned", "not_found"}
    /\ reader' = NoReader
    /\ UNCHANGED << export_jobs, export_job_events, event_id_seq, clock, runs, requests,
                    issued, projects, media_assets, timeline_tracks, timeline_clips,
                    clip_trims, transitions, response >>

NextReader ==
    \/ Next
    \/ \E id \in JobIds : GetExportJob(id)
    \/ ListExportJobEvents
    \/ ReaderReturn

SpecReader == Init /\ [][NextReader]_vars

\* ---- projects and timeline routes -------------------------------------------

workers == << event_id_seq, clock, runs, requests, reader >>
ledger == << export_jobs, export_job_events, workers >>

\* HTTP status of a response.
Ok == 200
NotFound == 404
ServerError == 500

Response(op, id, payload, status) ==
    [ op |-> op, id |-> id, payload |-> payload, status |-> status, body |-> None ]

\* data = {k: v for k, v in payload.model_dump().items() if v is not None}
Data(payload) ==
    [ k \in { f \in DOMAIN payload : payload[f] # None } |-> payload[k][1] ]

\* UPDATE t SET k = :k for every k of data: the other columns keep their
\* values.  A nullable column stores its value as Some(v).
\* Mutant of Patch: a nullable column the request leaves out is set to null.
Patch_replace(row, data, nullable) ==
    [ k \in DOMAIN row |->
        IF k \in DOMAIN data
        THEN IF k \in nullable THEN Some(data[k]) ELSE data[k]
        ELSE IF k \in nullable THEN None ELSE row[k] ]

Patch(row, data, nullable) ==
    [ k \in DOMAIN row |->
        IF k \in DOMAIN data
        THEN IF k \in nullable THEN Some(data[k]) ELSE data[k]
        ELSE row[k] ]

Remove(tbl, ids) == [ id \in DOMAIN tbl \ ids |-> tbl[id] ]

ProjectNullable == { "description" }
ClipNullable == { "media_asset_id", "name" }

\* -- the rows a DELETE takes with it (ON DELETE CASCADE along the ownership
\* -- graph; the tables' definitions are not part of the source tree)

DeadMedia(P) == { m \in DOMAIN media_assets : media_assets[m].project_id \in P }
DeadTracks(P, T) ==
    T \cup { t \in DOMAIN timeline_tracks : timeline_tracks[t].project_id \in P }
DeadClips(P, T, C) ==
    C \cup { c \in DOMAIN timeline_clips :
               \/ timeline_clips[c].project_id \in P
               \/ timeline_clips[c].track_id \in DeadTracks(P, T) }
DeadTrims(P, T, C, X) ==
    X \cup { x \in DOMAIN clip_trims : clip_trims[x].clip_id \in DeadClips(P, T, C) }
\* Mutant of DeadTransitions: a clip's delete leaves the transitions it ends.
DeadTransitions_owned(P, T, C, X) ==
    X \cup { x \in DOMAIN transitions :
               \/ transitions[x].project_id \in P
               \/ transitions[x].track_id \in DeadTracks(P, T) }

DeadTransitions(P, T, C, X) ==
    X \cup { x \in DOMAIN transitions :
               \/ transitions[x].project_id \in P
               \/ transitions[x].track_id \in DeadTracks(P, T)
               \/ transitions[x].from_clip_id \in DeadClips(P, T, C)
               \/ transitions[x].to_clip_id \in DeadClips(P, T, C) }
DeadJobs(P) == { j \in DOMAIN export_jobs : export_jobs[j].project_id \in P }

\* DELETE of the projects P, tracks T, clips C, trims X and transitions Y with
\* everything they own; a clip bound to a deleted media asset loses the binding.
CascadeDelete(P, T, C, X, Y) ==
    /\ projects' = Remove(projects, P)
    /\ media_assets' = Remove(media_assets, DeadMedia(P))
    /\ timeline_tracks' = Remove(timeline_tracks, DeadTracks(P, T))
    /\ timeline_clips' =
          LET kept == Remove(timeline_clips, DeadClips(P, T, C)) IN
          [ c \in DOMAIN kept |->
              IF kept[c].media_asset_id # None /\ kept[c].media_asset_id[1] \in DeadMedia(P)
              THEN [kept[c] EXCEPT !.media_asset_id = None]
              ELSE kept[c] ]
    /\ clip_trims' = Remove(clip_trims, DeadTrims(P, T, C, X))
    /\ transitions' = Remove(transitions, DeadTransitions(P, T, C, Y))
    /\ export_jobs' = Remove(export_jobs, DeadJobs(P))
    /\ export_job_events' =
          { e \in export_job_events : e.export_job_id \notin DeadJobs(P) }

\* A request that raises before its commit: the session rolls back.
Refuse(op, id, payload, status) ==
    /\ response' = Response(op, id, payload, status)
    /\ UNCHANGED << projects, media_assets, timeline_tracks, timeline_clips, clip_trims,
                    transitions, issued, ledger >>

\* A request that answers with a row.
Returned(op, id, payload, row) ==
    [ Response(op, id, payload, Ok) EXCEPT !.body = Some(row) ]

\* if not data: the row is read and returned, or 404; nothing is written.
Fetch(op, tbl, id, payload) ==
    IF id \notin DOMAIN tbl
    THEN Refuse(op, id, payload, NotFound)
    ELSE /\ response' = Returned(op, id, payload, tbl[id])
         /\ UNCHANGED << projects, media_assets, timeline_tracks, timeline_clips, clip_trims,
                         transitions, issued, ledger >>

\* -- the row an INSERT stores: the request's values and created_at

ProjectRow(payload, at) ==
    [ name |-> payload.name, description |-> payload.description,
      width |-> payload.width, height |-> payload.height, fps |-> payload.fps,
      duration_ms |-> 0, created_at |-> at ]

TrackRow(payload, at) ==
    [ project_id |-> payload.project_id, track_type |-> payload.track_type,
      name |-> payload.name, sort_order |-> payload.sort_order,
      muted |-> payload.muted, locked |-> payload.locked, created_at |-> at ]

ClipRow(payload, at) ==
    [ project_id |-> payload.project_id, track_id |-> payload.track_id,
      media_asset_id |-> payload.media_asset_id, clip_type |-> payload.clip_type,
      name |-> payload.name, start_ms |-> payload.start_ms,
      end_ms |-> payload.end_ms, in_ms |-> payload.in_ms,
      out_ms |-> payload.out_ms, speed |-> payload.speed,
      opacity |-> payload.opacity, volume |-> payload.volume,
      transform |-> payload.transform, created_at |-> at ]

TransitionRow(payload, at) ==
    [ project_id |-> payload.project_id, track_id |-> payload.track_id,
      from_clip_id |-> payload.from_clip_id, to_clip_id |-> payload.to_clip_id,
      transition_type |-> payload.transition_type,
      duration_ms |-> payload.duration_ms, easing |-> payload.easing,
      params |-> payload.params, created_at |-> at ]

\* -- projects

create_project(id, payload) ==
    /\ id \notin Issued("projects")
    /\ projects' = projects @@ (id :> ProjectRow(payload, clock))
    /\ issued' = [issued EXCEPT !["projects"] = Append(@, id)]
    /\ response' = Response("create_project", id, None, Ok)
    /\ UNCHANGED << media_assets, timeline_tracks, timeline_clips, clip_trims, transitions,
                    ledger >>

update_project(id, payload) ==
    IF DOMAIN Data(payload) = {}
    THEN Fetch("update_project", projects, id, Some(payload))
    ELSE IF id \notin DOMAIN projects
    THEN Refuse("update_project", id, Some(payload), NotFound)
    ELSE /\ projects' = [projects EXCEPT ![id] = Patch(@, Data(payload), ProjectNullable)]
         /\ response' = Returned("update_project", id, Some(payload), projects'[id])
         /\ UNCHANGED << media_assets, timeline_tracks, timeline_clips, clip_trims,
                         transitions, issued, ledger >>

\* DELETE FROM projects WHERE id = :id; rowcount == 0 gives 404 and a rollback.
delete_project(id) ==
    IF id \notin DOMAIN projects
    THEN Refuse("delete_project", id, None, NotFound)
    ELSE /\ CascadeDelete({id}, {}, {}, {}, {})
         /\ response' = Response("delete_project", id, None, Ok)
         /\ UNCHANGED << issued, workers >>

\* -- media assets

register_media(id, payload) ==
    IF payload.project_id \notin DOMAIN projects
    THEN Refuse("register_media", 0, None, ServerError)
    ELSE /\ id \notin Issued("media_assets")
         /\ media_assets' = media_assets @@ (id :>
               [ project_id |-> payload.project_id, kind |-> payload.kind,
                 source_uri |-> payload.source_uri, duration_ms |-> payload.duration_ms,
                 has_audio |-> payload.has_audio, created_at |-> clock ])
         /\ issued' = [issued EXCEPT !["media_assets"] = Append(@, id)]
         /\ response' = Response("register_media", id, None, Ok)
         /\ UNCHANGED << projects, timeline_tracks, timeline_clips, clip_trims, transitions,
                         ledger >>

\* -- timeline tracks

create_track(id, payload) ==
    IF payload.project_id \notin DOMAIN projects
    THEN Refuse("create_track", 0, None, ServerError)
    ELSE /\ id \notin Issued("timeline_tracks")
         /\ timeline_tracks' = timeline_tracks @@ (id :> TrackRow(payload, clock))
         /\ issued' = [issued EXCEPT !["timeline_tracks"] = Append(@, id)]
         /\ response' = Response("create_track", id, None, Ok)
         /\ UNCHANGED << projects, media_assets, timeline_clips, clip_trims, transitions,
                         ledger >>

update_track(id, payload) ==
    IF DOMAIN Data(payload) = {}
    THEN Fetch("update_track", timeline_tracks, id, Some(payload))
    ELSE IF id \notin DOMAIN timeline_tracks
    THEN Refuse("update_track", id, Some(payload), NotFound)
    ELSE /\ timeline_tracks' = [timeline_tracks EXCEPT ![id] = Patch(@, Data(payload), {})]
         /\ response' = Returned("update_track", id, Some(payload), timeline_tracks'[id])
         /\ UNCHANGED << projects, media_assets, timeline_clips, clip_trims, transitions,
                         issued, ledger >>

\* DELETE FROM timeline_tracks WHERE id = :id; rowcount == 0 gives 404 and a rollback.
delete_track(id) ==
    IF id \notin DOMAIN timeline_tracks
    THEN Refuse("delete_track", id, None, NotFound)
    ELSE /\ CascadeDelete({}, {id}, {}, {}, {})
         /\ response' = Response("delete_track", id, None, Ok)
         /\ UNCHANGED << issued, workers >>

\* -- timeline clips

\* The foreign keys of a clip row hold.
ClipRefsOk(project_id, track_id, media_asset_id) ==
    /\ project_id \in DOMAIN projects
    /\ track_id \in DOMAIN timeline_tracks
    /\ media_asset_id # None => media_asset_id[1] \in DOMAIN media_assets

create_clip(id, payload) ==
    IF ~ClipRefsOk(payload.project_id, payload.track_id, payload.media_asset_id)
    THEN Refuse("create_clip", 0, None, ServerError)
    ELSE /\ id \notin Issued("timeline_clips")
         /\ timeline_clips' = timeline_clips @@ (id :> ClipRow(payload, clock))
         /\ issued' = [issued EXCEPT !["timeline_clips"] = Append(@, id)]
         /\ response' = Response("create_clip", id, None, Ok)
         /\ UNCHANGED << projects, media_assets, timeline_tracks, clip_trims, transitions,
                         ledger >>

\* Mutant of update_clip: a media_asset_id of None in the body unbinds the clip.
update_clip_unbind(id, payload) ==
    IF id \notin DOMAIN timeline_clips
    THEN Refuse("update_clip", id, Some(payload), NotFound)
    ELSE LET row == [ Patch(timeline_clips[id], Data(payload), ClipNullable)
                        EXCEPT !.media_asset_id =
                            IF payload.media_asset_id = None THEN None ELSE @ ] IN
         /\ timeline_clips' = [timeline_clips EXCEPT ![id] = row]
         /\ response' = Returned("update_clip", id, Some(payload), row)
         /\ UNCHANGED << projects, media_assets, timeline_tracks, clip_trims,
                         transitions, issued, ledger >>

update_clip(id, payload) ==
    IF DOMAIN Data(payload) = {}
    THEN Fetch("update_clip", timeline_clips, id, Some(payload))
    ELSE IF id \notin DOMAIN timeline_clips
    THEN Refuse("update_clip", id, Some(payload), NotFound)
    ELSE LET row == Patch(timeline_clips[id], Data(payload), ClipNullable) IN
         IF ~ClipRefsOk(row.project_id, row.track_id, row.media_asset_id)
         THEN Refuse("update_clip", id, Some(payload), ServerError)
         ELSE /\ timeline_clips' = [timeline_clips EXCEPT ![id] = row]
              /\ response' = Returned("update_clip", id, Some(payload), row)
              /\ UNCHANGED << projects, media_assets, timeline_tracks, clip_trims,
                              transitions, issued, ledger >>

\* DELETE FROM timeline_clips WHERE id = :id; rowcount == 0 gives 404 and a rollback.
delete_clip(id) ==
    IF id \notin DOMAIN timeline_clips
    THEN Refuse("delete_clip", id, None, NotFound)
    ELSE /\ CascadeDelete({}, {}, {id}, {}, {})
         /\ response' = Response("delete_clip", id, None, Ok)
         /\ UNCHANGED << issued, workers >>

\* Mutant of ClipBefore: ties on start_ms go to the newer row.
ClipBefore_newest(a, b) ==
    \/ a.start_ms < b.start_ms
    \/ a.start_ms = b.start_ms /\ a.created_at > b.created_at

\* ORDER BY start_ms ASC, created_at ASC
ClipBefore(a, b) ==
    \/ a.start_ms < b.start_ms
    \/ a.start_ms = b.start_ms /\ a.created_at < b.created_at

\* The orders a SELECT may return the rows ids of tbl in: every order that
\* agrees with the ORDER BY key; rows equal in the key come in any order.
RowOrders(tbl, ids) ==
    { order \in [1..Cardinality(ids) -> ids] :
        /\ \A i, j \in DOMAIN order : i # j => order[i] # order[j]
        /\ \A i, j \in DOMAIN order : i < j => ~ClipBefore(tbl[order[j]], tbl[order[i]]) }

list_clips(project_id) ==
    /\ \E order \in RowOrders(timeline_clips,
              { c \in DOMAIN timeline_clips : timeline_clips[c].project_id = project_id }) :
          response' = [ Response("list_clips", project_id, None, Ok) EXCEPT !.body = Some(order) ]
    /\ UNCHANGED << projects, media_assets, timeline_tracks, timeline_clips, clip_trims,
                    transitions, issued, ledger >>

\* -- clip trims

create_trim(id, payload) ==
    IF payload.clip_id \notin DOMAIN timeline_clips
    THEN Refuse("create_trim", 0, None, ServerError)
    ELSE /\ id \notin Issued("clip_trims")
         /\ clip_trims' = clip_trims @@ (id :>
               [ clip_id |-> payload.clip_id, kind |-> payload.kind,
                 trim_in_ms |-> payload.trim_in_ms, trim_out_ms |-> payload.trim_out_ms,
                 created_at |-> clock ])
         /\ issued' = [issued EXCEPT !["clip_trims"] = Append(@, id)]
         /\ response' = Response("create_trim", id, None, Ok)
         /\ UNCHANGED << projects, media_assets, timeline_tracks, timeline_clips, transitions,
                         ledger >>

\* Mutant of delete_trim: deleting an id that is not stored succeeds.
delete_trim_idempotent(id) ==
    /\ CascadeDelete({}, {}, {}, {id}, {})
    /\ response' = Response("delete_trim", id, None, Ok)
    /\ UNCHANGED << issued, workers >>

\* DELETE FROM clip_trims WHERE id = :id; rowcount == 0 gives 404 and a rollback.
delete_trim(id) ==
    IF id \notin DOMAIN clip_trims
    THEN Refuse("delete_trim", id, None, NotFound)
    ELSE /\ CascadeDelete({}, {}, {}, {id}, {})
         /\ response' = Response("delete_trim", id, None, Ok)
         /\ UNCHANGED << issued, workers >>

\* -- transitions

create_transition(id, payload) ==
    IF ~ /\ payload.project_id \in DOMAIN projects
         /\ payload.track_id \in DOMAIN timeline_tracks
         /\ payload.from_clip_id \in DOMAIN timeline_clips
         /\ payload.to_clip_id \in DOMAIN timeline_clips
    THEN Refuse("create_transition", 0, None, ServerError)
    ELSE /\ id \notin Issued("transitions")
         /\ transitions' = transitions @@ (id :> TransitionRow(payload, clock))
         /\ issued' = [issued EXCEPT !["transitions"] = Append(@, id)]
         /\ response' = Response("create_transition", id, None, Ok)
         /\ UNCHANGED << projects, media_assets, timeline_tracks, timeline_clips, clip_trims,
                         ledger >>

update_transition(id, payload) ==
    IF DOMAIN Data(payload) = {}
    THEN Fetch("update_transition", transitions, id, Some(payload))
    ELSE IF id \notin DOMAIN transitions
    THEN Refuse("update_transition", id, Some(payload), NotFound)
    ELSE /\ transitions' = [transitions EXCEPT ![id] = Patch(@, Data(payload), {})]
         /\ response' = Returned("update_transition", id, Some(payload), transitions'[id])
         /\ UNCHANGED << projects, media_assets, timeline_tracks, timeline_clips, clip_trims,
                         issued, ledger >>

\* DELETE FROM transitions WHERE id = :id; rowcount == 0 gives 404 and a rollback.
delete_transition(id) ==
    IF id \notin DOMAIN transitions
    THEN Refuse("delete_transition", id, None, NotFound)
    ELSE /\ CascadeDelete({}, {}, {}, {}, {id})
         /\ response' = Response("delete_transition", id, None, Ok)
         /\ UNCHANGED << issued, workers >>

\* ---- requests to the projects and timeline routes ---------------------------

\* Request bodies as the schemas complete them (defaults filled in).
ProjectCreates ==
    { [ name |-> "Demo", description |-> None, width |-> 1920, height |-> 1080, fps |-> 30 ] }

MediaCreates ==
    { [ project_id |-> p, kind |-> "video", source_uri |-> "a.mp4", duration_ms |-> Some(1),
        has_audio |-> FALSE ] : p \in ProjectIds }

TrackCreates ==
    { [ project_id |-> p, track_type |-> "video", name |-> "V", sort_order |-> 0,
        muted |-> FALSE, locked |-> FALSE ] : p \in ProjectIds }

\* (start_ms, end_ms, in_ms, out_ms) of a request: the schema's defaults, and
\* other values its ge=0 bounds let through.
DefaultTimes == << 0, 0, 0, 0 >>
ClipTimes == { DefaultTimes, << 0, 1, 0, 1 >>, << 1, 0, 1, 0 >> }

ClipCreate(p, t, m, times) ==
    [ project_id |-> p, track_id |-> t, media_asset_id |-> m,
      clip_type |-> IF m = None THEN "title" ELSE "media", name |-> None,
      start_ms |-> times[1], end_ms |-> times[2], in_ms |-> times[3], out_ms |-> times[4],
      speed |-> 1, opacity |-> 1, volume |-> 1, transform |-> << >> ]

ClipCreates(timeset) ==
    { ClipCreate(p, t, m, times) :
        p \in ProjectIds, t \in TrackIds, m \in {None} \cup { Some(a) : a \in MediaIds },
        times \in timeset }

TrimCreates ==
    { [ clip_id |-> c, kind |-> "in", trim_in_ms |-> Some(0), trim_out_ms |-> None ] :
        c \in ClipIds }

TransitionCreates ==
    { [ project_id |-> p, track_id |-> t, from_clip_id |-> a, to_clip_id |-> b,
        transition_type |-> "crossfade", duration_ms |-> 1000, easing |-> "linear",
        params |-> << >> ] :
        p \in ProjectIds, t \in TrackIds, a \in ClipIds, b \in ClipIds }

\* A PATCH body as the update schema parses it: the request gives the fields
\* of given a value and sends the fields of nulls as null; a field sent as
\* null and a field left out both get the schema's default None.
Body(fields, given, nulls) ==
    [ k \in fields |->
        IF k \in DOMAIN given THEN Some(given[k])
        ELSE IF k \in nulls THEN None
        ELSE None ]

ProjectUpdateFields == { "name", "description", "width", "height", "fps", "duration_ms" }
TrackUpdateFields == { "name", "sort_order", "muted", "locked" }
ClipUpdateFields ==
    { "track_id", "media_asset_id", "name", "start_ms", "end_ms", "in_ms", "out_ms",
      "speed", "opacity", "volume", "transform" }
TransitionUpdateFields == { "transition_type", "duration_ms", "easing", "params" }

ClipMoves == { Body(ClipUpdateFields, [ track_id |-> t ], {}) : t \in TrackIds }

\* ---- the timeline store: creates, moves and deletes ---------------------------

InitTimeline ==
    /\ EmptyLedger
    /\ projects = << >>
    /\ media_assets = << >>
    /\ timeline_tracks = << >>
    /\ timeline_clips = << >>
    /\ clip_trims = << >>
    /\ transitions = << >>
    /\ issued = [t \in Tables |-> << >>]

NextTimeline ==
    \/ \E id \in ProjectIds, payload \in ProjectCreates : create_project(id, payload)
    \/ \E id \in MediaIds, payload \in MediaCreates : register_media(id, payload)
    \/ \E id \in TrackIds, payload \in TrackCreates : create_track(id, payload)
    \/ \E id \in ClipIds, payload \in ClipCreates({DefaultTimes}) : create_clip(id, payload)
    \/ \E id \in TrimIds, payload \in TrimCreates : create_trim(id, payload)
    \/ \E id \in TransitionIds, payload \in TransitionCreates : create_transition(id, payload)
    \/ \E id \in JobIds : CreateExportJob(id)
    \/ \E id \in ClipIds, payload \in ClipMoves : update_clip(id, payload)
    \/ \E id \in ProjectIds : delete_project(id)
    \/ \E id \in TrackIds : delete_track(id)
    \/ \E id \in ClipIds : delete_clip(id)
    \/ \E id \in TrimIds : delete_trim(id)
    \/ \E id \in TransitionIds : delete_transition(id)

SpecTimeline == InitTimeline /\ [][NextTimeline]_vars

\* ---- partial updates of a stored timeline ------------------------------------

ProjectUpdates ==
    { Body(ProjectUpdateFields, [ name |-> "Cut" ], {}),
      Body(ProjectUpdateFields, [ description |-> "final", duration_ms |-> 1 ], {}),
      Body(ProjectUpdateFields, << >>, {}),
      Body(ProjectUpdateFields, << >>, { "description" }),
      Body(ProjectUpdateFields, [ name |-> "Cut" ], { "description" }) }

TrackUpdates ==
    { Body(TrackUpdateFields, [ name |-> "A" ], {}),
      Body(TrackUpdateFields, [ sort_order |-> 1, muted |-> TRUE ], {}),
      Body(TrackUpdateFields, << >>, {}) }

ClipUpdates ==
    ClipMoves \cup
    { Body(ClipUpdateFields, [ name |-> "B" ], {}),
      Body(ClipUpdateFields, [ start_ms |-> 1, end_ms |-> 1 ], {}),
      Body(ClipUpdateFields, [ media_asset_id |-> 1 ], {}),
      Body(ClipUpdateFields, << >>, {}),
      Body(ClipUpdateFields, << >>, { "media_asset_id", "name" }),
      Body(ClipUpdateFields, [ start_ms |-> 1, end_ms |-> 1 ], { "media_asset_id", "name" }) }

TransitionUpdates ==
    { Body(TransitionUpdateFields, [ duration_ms |-> 500 ], {}),
      Body(TransitionUpdateFields, [ easing |-> "ease" ], {}),
      Body(TransitionUpdateFields, << >>, {}) }

\* One project with a media asset and a track, two clips on the track and a
\* transition between them, as create_project, register_media, create_track,
\* create_clip (twice) and create_transition leave the tables.
InitPatch ==
    /\ EmptyLedger
    /\ projects = (1 :> DefaultProject)
    /\ media_assets =
          (1 :> [ project_id |-> 1, kind |-> "video", source_uri |-> "a.mp4",
                  duration_ms |-> Some(1), has_audio |-> FALSE, created_at |-> 0 ])
    /\ timeline_tracks = (1 :> TrackRow(CHOOSE p \in TrackCreates : p.project_id = 1, 0))
    /\ timeline_clips = (1 :> ClipRow(ClipCreate(1, 1, None, DefaultTimes), 0))
                         @@ (2 :> ClipRow(ClipCreate(1, 1, None, DefaultTimes), 0))
    /\ clip_trims = << >>
    /\ transitions =
          (1 :> TransitionRow(CHOOSE p \in TransitionCreates :
                                  /\ p.project_id = 1 /\ p.track_id = 1
                                  /\ p.from_clip_id = 1 /\ p.to_clip_id = 2, 0))
    /\ issued = [t \in Tables |->
                   CASE t \in {"projects", "media_assets", "timeline_tracks", "transitions"}
                          -> << 1 >>
                     [] t = "timeline_clips" -> << 1, 2 >>
                     [] OTHER -> << >>]

NextPatch ==
    \/ \E id \in ProjectIds, payload \in ProjectUpdates : update_project(id, payload)
    \/ \E id \in TrackIds, payload \in TrackUpdates : update_track(id, payload)
    \/ \E id \in ClipIds, payload \in ClipUpdates : update_clip(id, payload)
    \/ \E id \in TransitionIds, payload \in TransitionUpdates : update_transition(id, payload)

SpecPatch == InitPatch /\ [][NextPatch]_vars

\* ---- the clips of one track ---------------------------------------------------

ClipRetimes ==
    { Body(ClipUpdateFields, [ start_ms |-> 1 ], {}),
      Body(ClipUpdateFields, [ end_ms |-> 0, out_ms |-> 0 ], {}) }

\* One project with a track and a media asset, as create_project, create_track
\* and register_media leave the tables.
InitClips ==
    /\ EmptyLedger
    /\ projects = (1 :> DefaultProject)
    /\ media_assets =
          (1 :> [ project_id |-> 1, kind |-> "video", source_uri |-> "a.mp4",
                  duration_ms |-> Some(1), has_audio |-> FALSE, created_at |-> 0 ])
    /\ timeline_tracks = (1 :> TrackRow(CHOOSE p \in TrackCreates : p.project_id = 1, 0))
    /\ timeline_clips = << >>
    /\ clip_trims = << >>
    /\ transitions = << >>
    /\ issued = [t \in Tables |->
                   IF t \in {"projects", "media_assets", "timeline_tracks"}
                   THEN << 1 >> ELSE << >>]

NextClips ==
    \/ Tick
    \/ \E id \in ClipIds, payload \in ClipCreates(ClipTimes) : create_clip(id, payload)
    \/ \E id \in ClipIds, payload \in ClipRetimes : update_clip(id, payload)
    \/ \E project_id \in ProjectIds : list_clips(project_id)

SpecClips == InitClips /\ [][NextClips]_vars

\* ---- properties ------------------------------------------------------------

EventTypes(id) == LET ev == Events(id) IN [i \in 1..Len(ev) |-> ev[i].event_type]
EventProgress(id) == LET ev == Events(id) IN [i \in 1..Len(ev) |-> ev[i].progress]
Finished(r) == r \in DOMAIN runs /\ runs[r].pc = "done" /\ runs[r].job \in DOMAIN export_jobs

\* C1 (as stated): a job run to completion without a storage failure has
\* status succeeded and exactly 7 events, whose progress values in
\* (created_at, id) order are 0.00, 0.00, 10.00, 25.00, 50.00, 75.00, 100.00.
C1_SevenEvents ==
    \A r \in DOMAIN runs : Finished(r) =>
        /\ export_jobs[Job(r)].status = "succeeded"
        /\ Len(Events(Job(r))) = 7
        /\ EventProgress(Job(r)) = << 0, 0, 1000, 2500, 5000, 7500, 10000 >>

C1_Final ==
    \A r \in DOMAIN runs : Finished(r) =>
        /\ export_jobs[Job(r)].status = "succeeded"
        /\ Len(Events(Job(r))) = 9
        /\ EventTypes(Job(r)) = << "created", "queued", "started", "progress", "progress",
                                   "progress", "progress", "progress", "completed" >>
        /\ EventProgress(Job(r)) = << 0, 0, 0, 1000, 2500, 5000, 7500, 10000, 10000 >>

C1_StatusStep ==
    \A id \in DOMAIN export_jobs :
        ( id \in DOMAIN export_jobs' /\ export_jobs'[id].status # export_jobs[id].status ) =>
            \/ export_jobs[id].status = "queued" /\ export_jobs'[id].status = "running"
            \/ export_jobs[id].status = "running" /\ export_jobs'[id].status = "succeeded"

\* C1 (amended): the status of a job only ever changes queued -> running ->
\* succeeded, and a job run to completion without a storage failure has status
\* succeeded and exactly 9 events: created, queued, started, five progress,
\* completed, with progress 0.00, 0.00, 0.00, 10.00, 25.00, 50.00, 75.00,
\* 100.00, 100.00 in (created_at, id) order.
C1_NineEvents == []C1_Final /\ [][C1_StatusStep]_vars

C1_Witness ==
    \E r \in DOMAIN runs : Finished(r) /\ export_jobs[Job(r)].finished_at # None

EventPhase(t) ==
    CASE t = "created" -> 1
      [] t = "queued" -> 2
      [] t = "started" -> 3
      [] t = "progress" -> 4
      [] t \in TerminalEvent -> 5

\* C2: the event types of every job, in (created_at, id) order, follow
\* created, queued?, started, progress*, (completed|failed|canceled): only
\* progress repeats, and a terminal event is the last one and the only one.
C2_EventOrder ==
    \A id \in DOMAIN export_jobs :
        LET types == EventTypes(id) IN
        \A i, j \in 1..Len(types) : i < j =>
            \/ EventPhase(types[i]) < EventPhase(types[j])
            \/ types[i] = "progress" /\ types[j] = "progress"

C2_Witness ==
    \E id \in DOMAIN export_jobs :
        /\ Len(Events(id)) > 1
        /\ EventTypes(id)[Len(Events(id))] = "completed"
        /\ \E i \in 1..Len(Events(id)) : Events(id)[i].created_at < clock

C3_EventsMonotone ==
    \A id \in DOMAIN export_jobs :
        LET progress == EventProgress(id) IN
        \A i, j \in 1..Len(progress) : i < j => progress[i] <= progress[j]

C3_RowStep ==
    \A id \in DOMAIN export_jobs :
        id \in DOMAIN export_jobs' => export_jobs'[id].progress >= export_jobs[id].progress

\* C3: the progress values of a job's events in (created_at, id) order never
\* decrease, and no write of the job row lowers its progress.
C3_Monotone == []C3_EventsMonotone /\ [][C3_RowStep]_vars

C3_Witness ==
    \E id \in DOMAIN export_jobs :
        /\ export_jobs[id].progress = 7500
        /\ \E i \in 1..Len(Events(id)) : Events(id)[i].progress = 7500

\* C4: a succeeded job has progress 100.00, an output_uri, a started_at and a
\* finished_at that is not before it; a failed job has an error_message, and a
\* finished_at that is not before its started_at.
C4_TerminalFields ==
    \A id \in DOMAIN export_jobs :
        /\ export_jobs[id].status = "succeeded" =>
              /\ export_jobs[id].progress = FullProgress
              /\ export_jobs[id].output_uri # None
              /\ export_jobs[id].started_at # None
              /\ export_jobs[id].finished_at # None
              /\ export_jobs[id].finished_at[1] >= export_jobs[id].started_at[1]
        /\ export_jobs[id].status = "failed" =>
              /\ export_jobs[id].error_message # None
              /\ export_jobs[id].started_at # None
              /\ export_jobs[id].finished_at # None
              /\ export_jobs[id].finished_at[1] >= export_jobs[id].started_at[1]

C4_Witness ==
    \E id \in DOMAIN export_jobs :
        /\ export_jobs[id].status = "succeeded"
        /\ export_jobs[id].finished_at # None
        /\ export_jobs[id].started_at # None
        /\ export_jobs[id].finished_at[1] > export_jobs[id].started_at[1]

\* C5: a run that finds its job row in a status other than queued fails at once
\* and changes neither the job row nor the job's events.
C5_Refused ==
    [][ \A r \in DOMAIN runs :
          ( /\ runs[r].pc = "set_queued"
            /\ runs[r].job \in DOMAIN export_jobs
            /\ export_jobs[runs[r].job].status # "queued"
            /\ runs'[r].pc # "set_queued" ) =>
                /\ runs'[r].pc = "crashed"
                /\ export_jobs' = export_jobs
                /\ export_job_events' = export_job_events ]_vars

\* C6: whenever a reader looks, the job row's progress is the progress of the
\* job's latest event.
C6_RowMatchesLatestEvent ==
    \A id \in DOMAIN export_jobs :
        LET ev == Events(id) IN
        /\ ev # << >>
        /\ export_jobs[id].progress = ev[Len(ev)].progress

\* C7: once a job row is succeeded, failed or canceled, no step changes its
\* status, progress, started_at or finished_at.
C7_TerminalFinal ==
    [][ \A id \in DOMAIN export_jobs :
          ( export_jobs[id].status \in TerminalStatus /\ id \in DOMAIN export_jobs' ) =>
                /\ export_jobs'[id].status = export_jobs[id].status
                /\ export_jobs'[id].progress = export_jobs[id].progress
                /\ export_jobs'[id].started_at = export_jobs[id].started_at
                /\ export_jobs'[id].finished_at = export_jobs[id].finished_at ]_vars

C7_Witness ==
    \E r \in DOMAIN runs :
        /\ runs[r].pc = "done"
        /\ export_jobs[Job(r)].status \in TerminalStatus
        /\ EventTypes(Job(r))[Len(Events(Job(r)))] \in TerminalEvent

\* C8: a job row never exists without its created event, which is the first of
\* the job's events; a dispatched run that has not started yet finds the row
\* queued at progress 0.00 with the created event as its only event.
C8_CreatedFirst ==
    /\ \A id \in DOMAIN export_jobs :
          LET ev == Events(id) IN
          /\ ev # << >>
          /\ ev[1].event_type = "created"
          /\ ev[1].progress = ZeroProgress
    /\ \A r \in DOMAIN runs :
          /\ Job(r) \in DOMAIN export_jobs
          /\ runs[r].pc = "dispatched" =>
                /\ export_jobs[Job(r)].status = "queued"
                /\ export_jobs[Job(r)].progress = ZeroProgress
                /\ EventTypes(Job(r)) = << "created" >>

C8_Witness ==
    \E id \in DOMAIN export_jobs :
        /\ Len(Events(id)) >= 2
        /\ Events(id)[1].event_type = "created"
        /\ Events(id)[2].event_type = "queued"

\* C9: a run that ended on a storage failure leaves its job queued, or failed
\* with an error_message: never running.
C9_NotStuck ==
    \A r \in DOMAIN runs :
        ( runs[r].pc = "crashed" /\ Job(r) \in DOMAIN export_jobs ) =>
            \/ export_jobs[Job(r)].status = "queued"
            \/ /\ export_jobs[Job(r)].status = "failed"
               /\ export_jobs[Job(r)].error_message # None

\* C10: every job has exactly one call of run_export_job_stub, the one its
\* creation request dispatched when it returned, so at most one is active for
\* a job id at any time.
C10_OneRunPerJob ==
    \A id \in JobIds :
        /\ Cardinality({r \in DOMAIN runs : Job(r) = id}) =
              IF id \in DOMAIN export_jobs /\ id \notin requests THEN 1 ELSE 0
        /\ Cardinality({r \in DOMAIN runs : Job(r) = id /\ Active(r)}) <= 1

C10_Witness ==
    \E r \in DOMAIN runs : Active(r) /\ runs[r].pc = "log_progress"

\* C11: get_export_job_with_events, run while the job's worker runs, returns
\* the job row together with exactly the events the job had when the row was
\* read.
C11_OneReadPoint ==
    reader.pc = "returned" => reader.events = reader.seen

DeleteOps ==
    { "delete_project", "delete_track", "delete_clip", "delete_trim", "delete_transition" }

Stored(op) ==
    CASE op = "delete_project" -> DOMAIN projects
      [] op = "delete_track" -> DOMAIN timeline_tracks
      [] op = "delete_clip" -> DOMAIN timeline_clips
      [] op = "delete_trim" -> DOMAIN clip_trims
      [] op = "delete_transition" -> DOMAIN transitions

Generated(op) ==
    CASE op = "delete_project" -> Issued("projects")
      [] op = "delete_track" -> Issued("timeline_tracks")
      [] op = "delete_clip" -> Issued("timeline_clips")
      [] op = "delete_trim" -> Issued("clip_trims")
      [] op = "delete_transition" -> Issued("transitions")

stores == << projects, media_assets, timeline_tracks, timeline_clips, clip_trims, transitions,
             export_jobs, export_job_events >>

\* A delete request answers not-found and changes no table when its id is not
\* stored, and otherwise answers ok with the id gone.
C13_DeleteStep ==
    \A op \in DeleteOps : \A id \in Generated(op) \cup ClipIds \cup TrackIds :
        ( response' # response /\ response'.op = op /\ response'.id = id ) =>
            IF id \in Stored(op)
            THEN response'.status = Ok /\ id \notin Stored(op)'
            ELSE response'.status = NotFound /\ UNCHANGED stores

\* An id that was stored and is not stored any more is never stored again.
C13_GoneForGood ==
    \A op \in DeleteOps :
        /\ Stored(op) \subseteq Generated(op)
        /\ \A id \in Generated(op) \ Stored(op) : id \notin Stored(op)'

\* C13: for projects, tracks, clips, trims and transitions, delete of an id that
\* is not stored reports not-found and changes nothing, and an id once deleted
\* stays not stored, so every later delete of it reports not-found.
C13_DeleteOnce == [][C13_DeleteStep /\ C13_GoneForGood]_vars

C13_Witness ==
    /\ response.op = "delete_clip"
    /\ response.status = NotFound
    /\ response.id \in Issued("timeline_clips")
    /\ timeline_clips # << >>

\* The columns a PATCH body leaves out.
Omitted(row, payload) == { k \in DOMAIN row : k \notin DOMAIN payload \/ payload[k] = None }

Kept(before, after, payload) == \A k \in Omitted(before, payload) : after[k] = before[k]

\* C12: an update_project, update_track, update_clip or update_transition of a
\* stored id leaves every column the payload omits at the value it had.
C12_OmittedKept ==
    [][ ( response' # response /\ response'.status = Ok /\ response'.payload # None ) =>
          LET id == response'.id
              payload == response'.payload[1]
          IN CASE response'.op = "update_project" ->
                    /\ DOMAIN projects' = DOMAIN projects
                    /\ Kept(projects[id], projects'[id], payload)
               [] response'.op = "update_track" ->
                    /\ DOMAIN timeline_tracks' = DOMAIN timeline_tracks
                    /\ Kept(timeline_tracks[id], timeline_tracks'[id], payload)
               [] response'.op = "update_clip" ->
                    /\ DOMAIN timeline_clips' = DOMAIN timeline_clips
                    /\ Kept(timeline_clips[id], timeline_clips'[id], payload)
               [] response'.op = "update_transition" ->
                    /\ DOMAIN transitions' = DOMAIN transitions
                    /\ Kept(transitions[id], transitions'[id], payload) ]_vars

C12_Witness ==
    /\ response.op = "update_track"
    /\ response.status = Ok
    /\ Data(response.payload[1]) = [ name |-> "A" ]
    /\ timeline_tracks[response.id].name = "A"
    /\ timeline_tracks[response.id].sort_order = 1
    /\ timeline_tracks[response.id].muted

\* C14: no stored row references a row that is not stored: media, tracks,
\* clips, transitions and export jobs have their project, clips and transitions
\* their track, trims their clip, transitions both their clips, a clip its
\* media asset if it has one, and export job events their job.
C14_NoDangling ==
    /\ \A m \in DOMAIN media_assets : media_assets[m].project_id \in DOMAIN projects
    /\ \A t \in DOMAIN timeline_tracks : timeline_tracks[t].project_id \in DOMAIN projects
    /\ \A c \in DOMAIN timeline_clips :
          /\ timeline_clips[c].project_id \in DOMAIN projects
          /\ timeline_clips[c].track_id \in DOMAIN timeline_tracks
          /\ timeline_clips[c].media_asset_id # None =>
                timeline_clips[c].media_asset_id[1] \in DOMAIN media_assets
    /\ \A x \in DOMAIN clip_trims : clip_trims[x].clip_id \in DOMAIN timeline_clips
    /\ \A x \in DOMAIN transitions :
          /\ transitions[x].project_id \in DOMAIN projects
          /\ transitions[x].track_id \in DOMAIN timeline_tracks
          /\ transitions[x].from_clip_id \in DOMAIN timeline_clips
          /\ transitions[x].to_clip_id \in DOMAIN timeline_clips
    /\ \A j \in DOMAIN export_jobs : export_jobs[j].project_id \in DOMAIN projects
    /\ \A e \in export_job_events : e.export_job_id \in DOMAIN export_jobs

C14_Witness ==
    /\ response.op = "delete_clip"
    /\ response.status = Ok
    /\ Len(issued["transitions"]) > 0 /\ transitions = << >>
    /\ Len(issued["clip_trims"]) > 0 /\ clip_trims = << >>
    /\ timeline_clips # << >>
    /\ export_jobs # << >>

\* The place of clip id among the clips created so far.
CreationIndex(id) ==
    CHOOSE i \in 1..Len(issued["timeline_clips"]) : issued["timeline_clips"][i] = id

\* The response of a list_clips request made in this step holds exactly the
\* stored clips of the project, by start_ms ascending.
C15_Listed(order, project_id) ==
    /\ { order[i] : i \in DOMAIN order } =
          { c \in DOMAIN timeline_clips : timeline_clips[c].project_id = project_id }
    /\ \A i, j \in DOMAIN order : i < j =>
          /\ order[i] # order[j]
          /\ timeline_clips[order[i]].start_ms <= timeline_clips[order[j]].start_ms

\* C15 (as stated): list_clips returns exactly the project's clips by start_ms
\* ascending, and any two clips with equal start_ms in the order they were
\* created.
C15_CreationOrder ==
    [][ ( response' # response /\ response'.op = "list_clips" ) =>
          LET order == response'.body[1] IN
          /\ C15_Listed(order, response'.id)
          /\ \A i, j \in DOMAIN order :
                ( /\ i < j
                  /\ timeline_clips[order[i]].start_ms = timeline_clips[order[j]].start_ms ) =>
                      CreationIndex(order[i]) < CreationIndex(order[j]) ]_vars

\* C15 (amended): list_clips returns exactly the project's clips by start_ms
\* ascending, and two clips with equal start_ms and different created_at in
\* the order they were created; clips equal in both come in either order.
C15_KeyOrder ==
    [][ ( response' # response /\ response'.op = "list_clips" ) =>
          LET order == response'.body[1] IN
          /\ C15_Listed(order, response'.id)
          /\ \A i, j \in DOMAIN order :
                ( /\ i < j
                  /\ timeline_clips[order[i]].start_ms = timeline_clips[order[j]].start_ms
                  /\ timeline_clips[order[i]].created_at # timeline_clips[order[j]].created_at ) =>
                      /\ timeline_clips[order[i]].created_at < timeline_clips[order[j]].created_at
                      /\ CreationIndex(order[i]) < CreationIndex(order[j]) ]_vars

C15_Witness ==
    /\ response.op = "list_clips"
    /\ response.body # None
    /\ Len(response.body[1]) = 2
    /\ response.body[1][1] > response.body[1][2]
    /\ { response.body[1][1], response.body[1][2] } \subseteq DOMAIN timeline_clips
    /\ timeline_clips[response.body[1][1]].start_ms = timeline_clips[response.body[1][2]].start_ms
    /\ timeline_clips[response.body[1][1]].created_at < timeline_clips[response.body[1][2]].created_at

\* C16: every stored clip has start_ms <= end_ms, and in_ms <= out_ms if it has
\* a media asset.
C16_ClipTimes ==
    \A c \in DOMAIN timeline_clips :
        /\ timeline_clips[c].start_ms <= timeline_clips[c].end_ms
        /\ timeline_clips[c].media_asset_id # None =>
              timeline_clips[c].in_ms <= timeline_clips[c].out_ms

\* C17: both clips of every stored transition are on the transition's track.
C17_SameTrack ==
    \A x \in DOMAIN transitions :
        /\ transitions[x].from_clip_id \in DOMAIN timeline_clips
        /\ transitions[x].to_clip_id \in DOMAIN timeline_clips
        /\ timeline_clips[transitions[x].from_clip_id].track_id = transitions[x].track_id
        /\ timeline_clips[transitions[x].to_clip_id].track_id = transitions[x].track_id

\* C18: a job row has an output_uri only if its status is succeeded, and an
\* error_message only if its status is failed.
C18_ResultFields ==
    \A id \in DOMAIN export_jobs :
        /\ export_jobs[id].output_uri # None => export_jobs[id].status = "succeeded"
        /\ export_jobs[id].error_message # None => export_jobs[id].status = "failed"

C18_Witness ==
    \E id \in DOMAIN export_jobs :
        /\ export_jobs[id].output_uri = Some(OutputUri(id))
        /\ export_jobs[id].status = "succeeded"
        /\ export_jobs[id].error_message = None

\* The state the job's events replay to: created and queued give status
\* queued, started gives running, progress gives its value, completed, failed
\* and canceled give the terminal status of the same name.
RECURSIVE Replay(_, _)
Replay(ev, n) ==
    IF n = 0 THEN [ status |-> "none", progress |-> ZeroProgress ]
    ELSE LET before == Replay(ev, n - 1)
             t == ev[n].event_type
         IN CASE t \in {"created", "queued"} -> [before EXCEPT !.status = "queued"]
              [] t = "started" -> [before EXCEPT !.status = "running"]
              [] t = "progress" -> [before EXCEPT !.progress = ev[n].progress]
              [] t = "completed" -> [before EXCEPT !.status = "succeeded"]
              [] t = "failed" -> [before EXCEPT !.status = "failed"]
              [] t = "canceled" -> [before EXCEPT !.status = "canceled"]

\* C19: once a worker run has ended, replaying the job's events in
\* (created_at, id) order gives exactly the status and progress of the job row.
C19_ReplayGivesRow ==
    \A r \in DOMAIN runs :
        ( ~Active(r) /\ Job(r) \in DOMAIN export_jobs ) =>
            LET ev == Events(Job(r)) IN
            Replay(ev, Len(ev)) = [ status |-> export_jobs[Job(r)].status,
                                    progress |-> export_jobs[Job(r)].progress ]

C20_Pending ==
    \A id \in requests :
        /\ id \in DOMAIN export_jobs
        /\ export_jobs[id].status = "queued"
        /\ EventTypes(id) = << "created" >>

C20_WorkerWrite ==
    \A id \in DOMAIN export_jobs :
        ( \/ id \notin DOMAIN export_jobs'
          \/ export_jobs'[id] # export_jobs[id]
          \/ list_export_job_events(export_job_events', id) # Events(id) ) =>
                id \notin requests

\* C20: while create_export_job has not returned its response, the job row is
\* queued with the created event only: every write of the worker, the one
\* that sets status running included, happens after the response.
C20_ResponseFirst == []C20_Pending /\ [][C20_WorkerWrite]_vars

C20_Witness ==
    \E r \in DOMAIN runs :
        /\ Job(r) \notin requests
        /\ runs[r].pc = "log_started"
        /\ export_jobs[Job(r)].status = "running"

HasEvent(id, event_type) == \E e \in export_job_events :
    e.export_job_id = id /\ e.event_type = event_type

\* A started event exists only for a job that has left queued, and a job that
\* has left queued has its started event unless a run is about to append it.
C21_Started ==
    \A id \in DOMAIN export_jobs :
        /\ export_jobs[id].status = "queued" => ~HasEvent(id, "started")
        /\ export_jobs[id].status # "queued" =>
              \/ HasEvent(id, "started")
              \/ \E r \in DOMAIN runs : Job(r) = id /\ runs[r].pc = "log_started"

\* The row becomes running from queued only, in a step that sets started_at.
C21_Step ==
    \A id \in DOMAIN export_jobs :
        ( /\ id \in DOMAIN export_jobs'
          /\ export_jobs[id].status # "running"
          /\ export_jobs'[id].status = "running" ) =>
                /\ export_jobs[id].status = "queued"
                /\ export_jobs[id].started_at = None
                /\ export_jobs'[id].started_at # None

\* C21: a job row becomes running only from queued, in a step that also sets
\* started_at; that transition gets its started event, and a job that is
\* still queued has no started event.
C21_RunningFromQueued == []C21_Started /\ [][C21_Step]_vars

\* C22: a progress event is appended for a job only in a step in which the
\* job's row has status running.
C22_ProgressWhileRunning ==
    [][ \A e \in export_job_events' \ export_job_events :
          e.event_type = "progress" =>
              /\ e.export_job_id \in DOMAIN export_jobs
              /\ export_jobs[e.export_job_id].status = "running"
              /\ export_jobs'[e.export_job_id].status = "running" ]_vars

C22_Witness ==
    \E e \in export_job_events :
        /\ e.event_type = "progress"
        /\ e.progress = FullProgress
        /\ export_jobs[e.export_job_id].status = "running"

\* The place of a progress value in 0, 10, 25, 50, 75, 100.
ScheduleIndex(progress) ==
    IF progress = ZeroProgress THEN 0
    ELSE CHOOSE i \in 1..Len(Schedule) : Schedule[i] = progress

StatusIndex(status) ==
    CASE status = "queued" -> 0
      [] status = "running" -> 1
      [] status \in TerminalStatus -> 2

\* C24: the row's progress is the progress of the job's latest event or the
\* next value of the schedule 0, 10, 25, 50, 75, 100 after it, and the row's
\* status is the status the job's events give or one transition after it.
C24_RowLeadsByOne ==
    \A id \in DOMAIN export_jobs :
        LET ev == Events(id)
            latest == ev[Len(ev)]
            replayed == Replay(ev, Len(ev))
        IN /\ ev # << >>
           /\ export_jobs[id].progress >= latest.progress
           /\ ScheduleIndex(export_jobs[id].progress) - ScheduleIndex(latest.progress) \in {0, 1}
           /\ StatusIndex(export_jobs[id].status) - StatusIndex(replayed.status) \in {0, 1}

C24_Witness ==
    \E id \in DOMAIN export_jobs :
        LET ev == Events(id) IN
        /\ ev # << >>
        /\ export_jobs[id].progress = 2500
        /\ ev[Len(ev)].progress = 1000
        /\ export_jobs[id].status = "running"

\* C23: with the worker scheduled fairly, no storage write failing and no job
\* row deleted, every job that create_export_job stored reaches status
\* succeeded, and a job that has reached a terminal status keeps it: one
\* transition into a terminal status in the whole run.
C23_Succeeds ==
    /\ \A id \in JobIds :
          ( id \in DOMAIN export_jobs ) ~>
              ( id \in DOMAIN export_jobs /\ export_jobs[id].status = "succeeded" )
    /\ [][ \A id \in DOMAIN export_jobs :
             /\ id \in DOMAIN export_jobs'
             /\ export_jobs[id].status \in TerminalStatus =>
                   export_jobs'[id].status = export_jobs[id].status ]_vars

C23_Witness ==
    \E id \in DOMAIN export_jobs :
        /\ export_jobs[id].status = "succeeded"
        /\ HasEvent(id, "completed")
        /\ \A r \in DOMAIN runs : Job(r) = id => runs[r].pc = "done"
        /\ clock = MaxClock

\* What an update request with body payload did to the rows before of its
\* table, leaving the rows after: a nullable column that held a value still
\* holds one, and holds the same one when the payload has it null or omitted;
\* a payload with nothing but null and omitted fields writes nothing and
\* answers with the stored row, or with not-found when the id is not stored.
C25_Update(before, after, id, payload, nullable) ==
    /\ ( response'.status = Ok /\ id \in DOMAIN before ) =>
          /\ id \in DOMAIN after
          /\ \A k \in nullable :
                /\ before[id][k] # None => after[id][k] # None
                /\ ( k \in DOMAIN payload /\ payload[k] = None ) => after[id][k] = before[id][k]
    /\ ( \A k \in DOMAIN payload : payload[k] = None ) =>
          /\ after = before
          /\ UNCHANGED stores
          /\ IF id \in DOMAIN before
             THEN response'.status = Ok /\ response'.body = Some(before[id])
             ELSE response'.status = NotFound

\* A request that sends fields as null is parsed to the body of the request
\* that leaves them out.
C25_NullIsOmitted ==
    /\ \A nulls \in SUBSET ProjectNullable :
          /\ Body(ProjectUpdateFields, << >>, nulls) = Body(ProjectUpdateFields, << >>, {})
          /\ Body(ProjectUpdateFields, [ name |-> "Cut" ], nulls) =
                Body(ProjectUpdateFields, [ name |-> "Cut" ], {})
          /\ Body(ProjectUpdateFields, << >>, nulls) \in ProjectUpdates
    /\ \A nulls \in SUBSET ClipNullable :
          /\ Body(ClipUpdateFields, << >>, nulls) = Body(ClipUpdateFields, << >>, {})
          /\ Body(ClipUpdateFields, << >>, nulls) \in ClipUpdates

\* C25: in update_project, update_track, update_clip and update_transition a
\* field sent as null is treated like a field left out: no update sets a
\* stored description, media_asset_id or clip name back to null, and a payload
\* whose fields are all null or left out writes nothing and returns the stored
\* row, or not-found when the id is not stored.
C25_NullNeverWritten ==
    /\ []C25_NullIsOmitted
    /\ [][ ( response' # response /\ response'.payload # None ) =>
              LET id == response'.id
                  payload == response'.payload[1]
              IN CASE response'.op = "update_project" ->
                        C25_Update(projects, projects', id, payload, ProjectNullable)
                   [] response'.op = "update_track" ->
                        C25_Update(timeline_tracks, timeline_tracks', id, payload, {})
                   [] response'.op = "update_clip" ->
                        C25_Update(timeline_clips, timeline_clips', id, payload, ClipNullable)
                   [] response'.op = "update_transition" ->
                        C25_Update(transitions, transitions', id, payload, {}) ]_vars

C25_Witness ==
    /\ response.op = "update_clip"
    /\ response.status = Ok
    /\ response.payload # None
    /\ DOMAIN Data(response.payload[1]) = {}
    /\ response.body # None
    /\ response.body[1].name = Some("B")
    /\ response.body[1].media_asset_id = Some(1)
    /\ timeline_clips[response.id] = response.body[1]
====
